---- MODULE Spec2Model ----
(***************************************************************************)
(* Ranking and allocation engine of the student selection system           *)
(* (services/rankingService: calculateTotal, tieBreaker, rankStudents).    *)
(* One behaviour is one call of rankStudents(students, plans): the totals  *)
(* are computed, the list is sorted, ranks are assigned, the quota         *)
(* counters are initialised and the students are allocated one by one in   *)
(* rank order.                                                             *)
(***************************************************************************)
EXTENDS Integers, Sequences, FiniteSets, TLC

VARIABLES
    students,      \* argument `students` of rankStudents (never written)
    plans,         \* argument `plans` of rankStudents (never written)
    examSubjects,  \* Dashboard state: ids of the configured exam subjects
    pc,            \* position inside rankStudents
    processed,     \* local `processed`
    quotaUsage,    \* local `quotaUsage`
    planQuotas,    \* local `planQuotas`
    result,        \* array built by the final processed.map(...)
    returned       \* what the callers received so far: one entry per finished call

VARIABLES
    role,          \* Dashboard prop: currentUser.role
    apiRequests,   \* number of requests the Dashboard has sent to the api
    activityLog,   \* number of entries storage.addLog has written
    lastCall       \* the Dashboard handler that was called last

dashboardVars == <<role, apiRequests, activityLog, lastCall>>

VARIABLES
    dbClassrooms,  \* sheet DB_Classrooms: the ids of its rows, header left out
    dbStudents,    \* sheet DB_Students: rows (classroom_id, student_id, data)
    dbSettings,    \* sheet DB_Settings: rows (classroom_id, type)
    scriptLock,    \* LockService.getScriptLock(): the execution that holds it
    req,           \* the executions of handleRequest: position and locals
    served,        \* number of requests received so far
    lastSaved      \* per (classroom, student): the data of the last save

serverVars == <<dbClassrooms, dbStudents, dbSettings, scriptLock, req, served, lastSaved>>

VARIABLES
    users,         \* localStorage APP_ADMIN_USERS
    thrown         \* whether the last call of the user store threw, and which call

storeVars == <<users, thrown>>

VARIABLES
    view,              \* App state `view`
    currentUser,       \* App state `currentUser`
    selectedClassroom, \* App state `selectedClassroom`
    showLogoutConfirm, \* App state `showLogoutConfirm`
    session,           \* localStorage APP_ACTIVE_SESSION
    lastEvent          \* the handler of App that ran last

appVars == <<view, currentUser, selectedClassroom, showLogoutConfirm, session, lastEvent>>

\* the locals of a call of rankStudents, and what its callers received
callVars == <<pc, processed, quotaUsage, planQuotas, result, returned>>

\* what the backend does not write
ServerFrame ==
    UNCHANGED <<students, plans, examSubjects, callVars, dashboardVars, storeVars, appVars>>

\* what the user store does not write
StoreFrame ==
    UNCHANGED <<students, plans, examSubjects, callVars, dashboardVars, serverVars, appVars>>

\* what the App does not write
AppFrame ==
    UNCHANGED <<students, plans, examSubjects, callVars, dashboardVars, serverVars, storeVars>>

\* the state outside a call of rankStudents and its arguments
outside == <<dashboardVars, serverVars, storeVars, appVars>>

vars == <<students, plans, examSubjects, pc, processed, quotaUsage, planQuotas, result,
          returned, outside>>

-----------------------------------------------------------------------------
(* Bounds of the model *)

MaxStudents == 2
MaxQuota == 1
MaxCalls == 3
MaxLog == 2
MaxRequests == 3
MaxUsers == 3

-----------------------------------------------------------------------------
(* JavaScript values: numbers, NaN and undefined *)

Num(n) == [t |-> "number", v |-> n]
NaN == [t |-> "NaN", v |-> 0]
Undefined == [t |-> "undefined", v |-> 0]
Null == "null"
Absent == "undefined"

IsNum(x) == x.t = "number"

\* x + y on numbers; undefined + n and NaN + n are NaN
JSAdd(x, y) == IF IsNum(x) /\ IsNum(y) THEN Num(x.v + y.v) ELSE NaN

\* x - y on numbers; NaN when either side is not a number
JSSub(x, y) == IF IsNum(x) /\ IsNum(y) THEN Num(x.v - y.v) ELSE NaN

\* x !== y : NaN differs from everything, itself included
StrictNotEqual(x, y) == IF x = NaN \/ y = NaN THEN TRUE ELSE x # y

\* student.scores[key]: undefined when the key is missing
ScoreOf(s, key) == IF key \in DOMAIN s.scores THEN Num(s.scores[key]) ELSE Undefined

-----------------------------------------------------------------------------
(* Configuration *)

\* ids of the subjects a new classroom starts with
DEFAULT_SUBJECTS == <<"math", "science", "thai", "english", "social">>

\* the keys calculateTotal and tieBreaker read from student.scores
FiveSubjects == {"math", "science", "thai", "english", "social"}

\* ids of a list of subjects
SubjectIds(subjects) == {subjects[i] : i \in 1..Len(subjects)}

\* SettingsPage: setTempSubjects([...tempSubjects, { id: newId, ... }])
handleAddTempSubject(tempSubjects, newId) == Append(tempSubjects, newId)

\* SettingsPage: setTempSubjects(tempSubjects.filter(s => s.id !== id))
handleDeleteTempSubject(tempSubjects, id) == SelectSeq(tempSubjects, LAMBDA x : x # id)

-----------------------------------------------------------------------------
(* calculateTotal, tieBreaker and the sort comparator *)

calculateTotal(student) ==
    JSAdd(JSAdd(JSAdd(JSAdd(ScoreOf(student, "math"), ScoreOf(student, "science")),
                      ScoreOf(student, "thai")),
                ScoreOf(student, "english")),
          ScoreOf(student, "social"))

\* the tie-break with math consulted before science
tieBreakerMathFirst(a, b) ==
    IF StrictNotEqual(ScoreOf(a, "math"), ScoreOf(b, "math"))
      THEN JSSub(ScoreOf(b, "math"), ScoreOf(a, "math"))
    ELSE IF StrictNotEqual(ScoreOf(a, "science"), ScoreOf(b, "science"))
      THEN JSSub(ScoreOf(b, "science"), ScoreOf(a, "science"))
    ELSE IF StrictNotEqual(ScoreOf(a, "english"), ScoreOf(b, "english"))
      THEN JSSub(ScoreOf(b, "english"), ScoreOf(a, "english"))
    ELSE IF StrictNotEqual(ScoreOf(a, "thai"), ScoreOf(b, "thai"))
      THEN JSSub(ScoreOf(b, "thai"), ScoreOf(a, "thai"))
    ELSE JSSub(ScoreOf(b, "social"), ScoreOf(a, "social"))

\* negative when a comes before b
tieBreaker(a, b) ==
    IF StrictNotEqual(ScoreOf(a, "science"), ScoreOf(b, "science"))
      THEN JSSub(ScoreOf(b, "science"), ScoreOf(a, "science"))
    ELSE IF StrictNotEqual(ScoreOf(a, "math"), ScoreOf(b, "math"))
      THEN JSSub(ScoreOf(b, "math"), ScoreOf(a, "math"))
    ELSE IF StrictNotEqual(ScoreOf(a, "english"), ScoreOf(b, "english"))
      THEN JSSub(ScoreOf(b, "english"), ScoreOf(a, "english"))
    ELSE IF StrictNotEqual(ScoreOf(a, "thai"), ScoreOf(b, "thai"))
      THEN JSSub(ScoreOf(b, "thai"), ScoreOf(a, "thai"))
    ELSE JSSub(ScoreOf(b, "social"), ScoreOf(a, "social"))

\* the comparator handed to processed.sort
compareFn(a, b) ==
    IF StrictNotEqual(b.totalScore, a.totalScore)
      THEN JSSub(b.totalScore, a.totalScore)
      ELSE tieBreaker(a, b)

\* Array.prototype.sort reads the comparator's result: NaN counts as +0
SortSign(x) ==
    IF ~IsNum(x) THEN 0
    ELSE IF x.v < 0 THEN -1
    ELSE IF x.v > 0 THEN 1
    ELSE 0

Cmp(a, b) == SortSign(compareFn(a, b))

\* ECMAScript "consistent comparison function" over the elements of seq
ConsistentComparator(seq) ==
    LET n == Len(seq)
        c == [p \in (1..n) \X (1..n) |-> Cmp(seq[p[1]], seq[p[2]])]
    IN
    /\ \A i \in 1..n : c[<<i, i>>] = 0
    /\ \A i, j \in 1..n : c[<<i, j>>] = -c[<<j, i>>]
    /\ \A i, j, k \in 1..n :
         /\ (c[<<i, j>>] = 0 /\ c[<<j, k>>] = 0) => c[<<i, k>>] = 0
         /\ (c[<<i, j>>] < 0 /\ c[<<j, k>>] < 0) => c[<<i, k>>] < 0
         /\ (c[<<i, j>>] > 0 /\ c[<<j, k>>] > 0) => c[<<i, k>>] > 0

\* an unstable insertion: x enters before the elements it ties with
RECURSIVE InsertPosBeforeTies(_, _, _)
InsertPosBeforeTies(sorted, x, k) ==
    IF k > Len(sorted) THEN k
    ELSE IF Cmp(x, sorted[k]) <= 0 THEN k
    ELSE InsertPosBeforeTies(sorted, x, k + 1)

\* position at which x enters an already sorted prefix: before the first
\* element that x precedes, after every element it ties with or follows
RECURSIVE InsertPos(_, _, _)
InsertPos(sorted, x, k) ==
    IF k > Len(sorted) THEN k
    ELSE IF Cmp(x, sorted[k]) < 0 THEN k
    ELSE InsertPos(sorted, x, k + 1)

InsertSorted(sorted, x) ==
    LET p == InsertPos(sorted, x, 1) IN
    SubSeq(sorted, 1, p - 1) \o <<x>> \o SubSeq(sorted, p, Len(sorted))

\* the stable sort of seq under compareFn
RECURSIVE StableSort(_)
StableSort(seq) ==
    IF seq = << >> THEN << >>
    ELSE InsertSorted(StableSort(SubSeq(seq, 1, Len(seq) - 1)), seq[Len(seq)])

Reorderings(seq) ==
    LET n == Len(seq) IN
    {[i \in 1..n |-> seq[p[i]]] :
        p \in {q \in [1..n -> 1..n] : \A i, j \in 1..n : i # j => q[i] # q[j]}}

\* outcomes of processed.sort(compareFn): the stable order when the comparator
\* is consistent, an implementation-defined order otherwise
SortOutcomes(seq) ==
    IF ConsistentComparator(seq) THEN {StableSort(seq)} ELSE Reorderings(seq)

-----------------------------------------------------------------------------
(* Allocation helpers *)

\* plans.forEach(p => quotaUsage[p.name] = 0)
\* the counters are a mapping that outlives the call: a name already counted
\* keeps its count
InitQuotaUsageKept(ps) ==
    [n \in {ps[i].name : i \in 1..Len(ps)} |->
        IF n \in DOMAIN quotaUsage THEN quotaUsage[n] ELSE 0]

InitQuotaUsage(ps) == [n \in {ps[i].name : i \in 1..Len(ps)} |-> 0]

\* planQuotas[p.name] = p.quota || 1: a quota of 0 is read as "not set"
InitPlanQuotasFalsyDefault(ps) ==
    [n \in {ps[i].name : i \in 1..Len(ps)} |->
        LET last == CHOOSE i \in 1..Len(ps) :
                      /\ ps[i].name = n
                      /\ \A j \in 1..Len(ps) : ps[j].name = n => j <= i
        IN IF ps[last].quota = 0 THEN 1 ELSE ps[last].quota]

\* plans.forEach(p => planQuotas[p.name] = p.quota): the last plan of a name wins
InitPlanQuotas(ps) ==
    [n \in {ps[i].name : i \in 1..Len(ps)} |->
        LET last == CHOOSE i \in 1..Len(ps) :
                      /\ ps[i].name = n
                      /\ \A j \in 1..Len(ps) : ps[j].name = n => j <= i
        IN ps[last].quota]

HasSpaceOffByOne(planName, usage, quotas) ==
    /\ planName \in DOMAIN quotas
    /\ usage[planName] <= quotas[planName]

\* a test that never hands out the last seat
HasSpaceKeepsLastSeat(planName, usage, quotas) ==
    /\ planName \in DOMAIN quotas
    /\ usage[planName] + 1 < quotas[planName]

\* a test for "not yet full" by inequality
HasSpaceNotEqual(planName, usage, quotas) ==
    /\ planName \in DOMAIN quotas
    /\ usage[planName] # quotas[planName]

\* a name that is no configured plan is taken as a plan without limit
HasSpaceUnknownUnlimited(planName, usage, quotas) ==
    \/ planName \notin DOMAIN quotas
    \/ usage[planName] < quotas[planName]

\* the test that guards an allocation
HasSpace(planName, usage, quotas) ==
    /\ planName \in DOMAIN quotas
    /\ usage[planName] < quotas[planName]

\* a scan without the break: the last plan with space wins
RECURSIVE ScanPreferencesNoBreak(_, _, _, _)
ScanPreferencesNoBreak(prefs, k, usage, quotas) ==
    IF k > Len(prefs) THEN Null
    ELSE LET rest == ScanPreferencesNoBreak(prefs, k + 1, usage, quotas) IN
         IF rest # Null THEN rest
         ELSE IF HasSpace(prefs[k], usage, quotas) THEN prefs[k]
         ELSE Null

\* a scan that falls back on any plan with space when no preference has room
ScanPreferencesFallback(prefs, k, usage, quotas) ==
    LET listed == {j \in k..Len(prefs) : HasSpace(prefs[j], usage, quotas)}
        open == {n \in DOMAIN quotas : HasSpace(n, usage, quotas)}
    IN IF listed # {} THEN prefs[CHOOSE j \in listed : \A i \in listed : j <= i]
       ELSE IF open # {} THEN CHOOSE n \in open : TRUE
       ELSE Null

\* a scan that starts at the second entry of the list
RECURSIVE ScanPreferencesFromSecond(_, _, _, _)
ScanPreferencesFromSecond(prefs, k, usage, quotas) ==
    IF k = 1 THEN ScanPreferencesFromSecond(prefs, 2, usage, quotas)
    ELSE IF k > Len(prefs) THEN Null
    ELSE IF HasSpace(prefs[k], usage, quotas) THEN prefs[k]
    ELSE ScanPreferencesFromSecond(prefs, k + 1, usage, quotas)

\* a scan that gives up at the first name that is no configured plan
RECURSIVE ScanPreferencesStopsAtUnknown(_, _, _, _)
ScanPreferencesStopsAtUnknown(prefs, k, usage, quotas) ==
    IF k > Len(prefs) THEN Null
    ELSE IF prefs[k] \notin DOMAIN quotas THEN Null
    ELSE IF HasSpace(prefs[k], usage, quotas) THEN prefs[k]
    ELSE ScanPreferencesStopsAtUnknown(prefs, k + 1, usage, quotas)

\* the for..of loop over preferredStreams: the first plan with space, or null
RECURSIVE ScanPreferences(_, _, _, _)
ScanPreferences(prefs, k, usage, quotas) ==
    IF k > Len(prefs) THEN Null
    ELSE IF HasSpace(prefs[k], usage, quotas) THEN prefs[k]
    ELSE ScanPreferences(prefs, k + 1, usage, quotas)

\* the counter is incremented in the test and again after the assignment
IncrementUsageTwice(usage, assignedPlan) ==
    IF assignedPlan = Null THEN usage
    ELSE [usage EXCEPT ![assignedPlan] = @ + 2]

IncrementUsageForgotten(usage, assignedPlan) == usage

\* quotaUsage[planName]++ for the assigned plan
IncrementUsage(usage, assignedPlan) ==
    IF assignedPlan = Null THEN usage
    ELSE [usage EXCEPT ![assignedPlan] = @ + 1]

-----------------------------------------------------------------------------
(* Steps of rankStudents *)

\* the spread written last: fields already on the record survive
WithTotalSpreadLast(s) ==
    [s EXCEPT !.totalScore = IF s.totalScore = Undefined THEN calculateTotal(s) ELSE s.totalScore,
              !.rank = IF s.rank = Undefined THEN Num(0) ELSE s.rank,
              !.qualifiedStream = IF s.qualifiedStream = Absent THEN Null ELSE s.qualifiedStream]

\* { ...s, totalScore: calculateTotal(s), rank: 0, qualifiedStream: null }
WithTotal(s) ==
    [s EXCEPT !.totalScore = calculateTotal(s), !.rank = Num(0), !.qualifiedStream = Null]

CalculateTotals ==
    /\ pc = "start"
    /\ processed' = [i \in 1..Len(students) |-> WithTotal(students[i])]
    /\ pc' = "totalled"
    /\ UNCHANGED <<students, plans, examSubjects, quotaUsage, planQuotas, result, returned>>
    /\ UNCHANGED outside

\* the sort reorders the argument array as well
InputSortedInPlace(input, sorted) ==
    [i \in 1..Len(sorted) |->
        input[CHOOSE j \in 1..Len(input) : input[j].id = sorted[i].id]]

\* processed.sort works on the array that students.map created: the argument
\* array keeps its order
InputAfterSort(input, sorted) == input

GlobalSort ==
    /\ pc = "totalled"
    /\ \E sorted \in SortOutcomes(processed) :
         /\ processed' = sorted
         /\ students' = InputAfterSort(students, sorted)
    /\ pc' = "sorted"
    /\ UNCHANGED <<plans, examSubjects, quotaUsage, planQuotas, result, returned>>
    /\ UNCHANGED outside

\* competition ranking: tied students share a rank number
WithRankShared(s, index) ==
    [s EXCEPT !.rank = Num(1 + Cardinality({k \in 1..Len(processed) : Cmp(processed[k], s) < 0}))]

\* { ...s, rank: index + 1 }
\* rank: index, the 0-based position itself
WithRankZeroBased(s, index) == [s EXCEPT !.rank = Num(index)]

WithRank(s, index) == [s EXCEPT !.rank = Num(index + 1)]

AssignGlobalRank ==
    /\ pc = "sorted"
    /\ processed' = [i \in 1..Len(processed) |-> WithRank(processed[i], i - 1)]
    /\ pc' = "ranked"
    /\ UNCHANGED <<students, plans, examSubjects, quotaUsage, planQuotas, result, returned>>
    /\ UNCHANGED outside

InitQuota ==
    /\ pc = "ranked"
    /\ quotaUsage' = InitQuotaUsage(plans)
    /\ planQuotas' = InitPlanQuotas(plans)
    /\ pc' = "allocating"
    /\ UNCHANGED <<students, plans, examSubjects, processed, result, returned>>
    /\ UNCHANGED outside

\* the map visits the array from the worst-ranked student to the best
NextToAllocateFromEnd(seq, done) == seq[Len(seq) - Len(done)]

\* the element the map callback receives next: the array is visited in order
NextToAllocate(seq, done) == seq[Len(done) + 1]

\* one callback of the final processed.map
Allocate ==
    /\ pc = "allocating"
    /\ Len(result) < Len(processed)
    /\ LET student == NextToAllocate(processed, result)
           assignedPlan == ScanPreferences(student.preferredStreams, 1, quotaUsage, planQuotas)
       IN /\ quotaUsage' = IncrementUsage(quotaUsage, assignedPlan)
          /\ result' = Append(result, [student EXCEPT !.qualifiedStream = assignedPlan])
    /\ UNCHANGED <<students, plans, examSubjects, pc, processed, planQuotas, returned>>
    /\ UNCHANGED outside

Return ==
    /\ pc = "allocating"
    /\ Len(result) = Len(processed)
    /\ pc' = "done"
    /\ returned' = Append(returned, [students |-> students, plans |-> plans, result |-> result])
    /\ UNCHANGED <<students, plans, examSubjects, processed, quotaUsage, planQuotas, result>>
    /\ UNCHANGED outside

\* the whole allocation pass over a ranked list, as one function
RECURSIVE AllocateAll(_, _, _, _)
AllocateAll(seq, usage, quotas, done) ==
    IF Len(done) = Len(seq) THEN done
    ELSE LET student == NextToAllocate(seq, done)
             assignedPlan == ScanPreferences(student.preferredStreams, 1, usage, quotas)
         IN AllocateAll(seq, IncrementUsage(usage, assignedPlan), quotas,
                        Append(done, [student EXCEPT !.qualifiedStream = assignedPlan]))

RunAllocation(seq, ps) == AllocateAll(seq, InitQuotaUsage(ps), InitPlanQuotas(ps), << >>)

Next ==
    \/ CalculateTotals
    \/ GlobalSort
    \/ AssignGlobalRank
    \/ InitQuota
    \/ Allocate
    \/ Return

-----------------------------------------------------------------------------
(* Inputs *)

TrackNames == {"X", "Y"}
UnknownTrack == "U"

PrefNames == TrackNames \cup {UnknownTrack}

\* preference lists: every list of at most one entry, and the two-entry lists
\* that name track X (X twice included)
PrefLists ==
    {<< >>} \cup {<<a>> : a \in PrefNames}
        \cup {<<"X", a>> : a \in PrefNames} \cup {<<a, "X">> : a \in PrefNames}

\* the two tracks: X with a quota in 0..MaxQuota, Y with room for one at most
PlanLists ==
    {<<[id |-> "1", name |-> "X", quota |-> qx], [id |-> "2", name |-> "Y", quota |-> qy]>> :
        qx \in 0..MaxQuota, qy \in 0..1}

RECURSIVE SumOver(_, _)
SumOver(f, S) ==
    IF S = {} THEN 0
    ELSE LET k == CHOOSE x \in S : TRUE IN f[k] + SumOver(f, S \ {k})

\* score sheets over the keys K with marks 0 or 1 and a total of at most top
ScoreRows(K, top) == {f \in [K -> 0..1] : SumOver(f, K) <= top}

\* score sheets that differ in science only
ScienceRows == {[k \in FiveSubjects |-> IF k = "science" THEN v ELSE 0] : v \in 0..1}

\* a Student as the Dashboard holds it: no totalScore, rank or qualifiedStream
Fresh == [totalScore |-> Undefined, rank |-> Undefined, qualifiedStream |-> Absent]
\* a RankedStudent of an earlier run handed in again
Stale == [totalScore |-> Num(9), rank |-> Num(7), qualifiedStream |-> "Y"]

\* title, firstName and lastName of student i, as one opaque value
DisplayOf(i) == <<"name", i>>

MkStudent(i, sc, pr, old) ==
    [id |-> i, display |-> DisplayOf(i), scores |-> sc, preferredStreams |-> pr,
     totalScore |-> old.totalScore, rank |-> old.rank, qualifiedStream |-> old.qualifiedStream]

\* the Dashboard before any handler was called
IdleDashboard ==
    /\ role = "SUPER_ADMIN"
    /\ apiRequests = 0
    /\ activityLog = 0
    /\ lastCall = "none"

\* the backend with empty sheets and no request
IdleServer ==
    /\ dbClassrooms = << >>
    /\ dbStudents = << >>
    /\ dbSettings = << >>
    /\ scriptLock = "free"
    /\ req = << >>
    /\ served = 0
    /\ lastSaved = << >>

\* the user store before its first use
IdleStore ==
    /\ users = << >>
    /\ thrown = "none"

\* the App with no session
IdleApp ==
    /\ view = "LANDING"
    /\ currentUser = Null
    /\ selectedClassroom = Null
    /\ showLogoutConfirm = FALSE
    /\ session = Null
    /\ lastEvent = "none"

IdleOutside == IdleDashboard /\ IdleServer /\ IdleStore /\ IdleApp

\* rankStudents is not running
IdleCall ==
    /\ pc = "start"
    /\ processed = << >>
    /\ quotaUsage = << >>
    /\ planQuotas = << >>
    /\ result = << >>
    /\ returned = << >>

InitLocals ==
    /\ pc = "start"
    /\ processed = << >>
    /\ quotaUsage = << >>
    /\ planQuotas = << >>
    /\ result = << >>
    /\ returned = << >>
    /\ IdleOutside

\* allocation inputs: every preference list, every quota, two score sheets
Init ==
    /\ examSubjects = DEFAULT_SUBJECTS
    /\ plans \in PlanLists
    /\ \E n \in 0..MaxStudents :
         \E sc \in [1..n -> ScienceRows], pr \in [1..n -> PrefLists] :
            students = [i \in 1..n |-> MkStudent(i, sc[i], pr[i], Fresh)]
    /\ InitLocals

Spec == Init /\ [][Next]_vars

\* ranking inputs: every score sheet, fresh and re-submitted records, one
\* preference list and one quota
InitRank ==
    /\ examSubjects = DEFAULT_SUBJECTS
    /\ plans = <<[id |-> "1", name |-> "X", quota |-> 1], [id |-> "2", name |-> "Y", quota |-> 1]>>
    /\ \E n \in 0..MaxStudents :
         \E sc \in [1..n -> ScoreRows(FiveSubjects, 2)], old \in [1..n -> {Fresh, Stale}] :
            students = [i \in 1..n |-> MkStudent(i, sc[i], <<"X", "Y">>, old[i])]
    /\ InitLocals

SpecRank == InitRank /\ [][Next]_vars

\* track lists in which at least one quota is negative
NegativePlanLists ==
    {<<[id |-> "1", name |-> "X", quota |-> qx], [id |-> "2", name |-> "Y", quota |-> qy]>> :
        qx \in {-1} \cup 0..MaxQuota, qy \in {-1, 1}}
      \ {<<[id |-> "1", name |-> "X", quota |-> qx], [id |-> "2", name |-> "Y", quota |-> 1]>> :
            qx \in 0..MaxQuota}

\* allocation inputs with a malformed configuration: a negative quota
InitNegative ==
    /\ examSubjects = DEFAULT_SUBJECTS
    /\ plans \in NegativePlanLists
    /\ \E n \in 0..MaxStudents :
         \E sc \in [1..n -> ScienceRows], pr \in [1..n -> PrefLists] :
            students = [i \in 1..n |-> MkStudent(i, sc[i], pr[i], Fresh)]
    /\ InitLocals

SpecNegative == InitNegative /\ [][Next]_vars

\* the inputs the dashboard hands to rankStudents over its lifetime
CallInputs ==
    {[students |-> [i \in 1..MaxStudents |->
                      MkStudent(i, [k \in FiveSubjects |-> 0], pr[i], Fresh)],
      plans |-> <<[id |-> "1", name |-> "X", quota |-> qx],
                  [id |-> "2", name |-> "Y", quota |-> 1]>>] :
        pr \in {f \in [1..MaxStudents -> {<<"X">>, <<"X", "Y">>}] :
                    \A i \in 3..MaxStudents : f[i] = <<"X", "Y">>},
        qx \in {0, MaxQuota}}

\* the students or the plans changed: rankStudents is called again; the
\* locals of the new call (processed, quotaUsage, planQuotas) are not yet set
Invoke ==
    /\ pc = "done"
    /\ Len(returned) < MaxCalls
    /\ \E input \in CallInputs :
         /\ students' = input.students
         /\ plans' = input.plans
    /\ pc' = "start"
    /\ result' = << >>
    /\ UNCHANGED <<examSubjects, processed, quotaUsage, planQuotas, returned>>
    /\ UNCHANGED outside

\* track lists of every length, the empty one included
DegeneratePlanLists ==
    {<< >>,
     <<[id |-> "1", name |-> "X", quota |-> MaxQuota]>>,
     <<[id |-> "1", name |-> "X", quota |-> MaxQuota], [id |-> "2", name |-> "Y", quota |-> 1]>>}

\* degenerate inputs: no student, or no track
InitDegenerate ==
    /\ examSubjects = DEFAULT_SUBJECTS
    /\ plans \in DegeneratePlanLists
    /\ \E n \in 0..MaxStudents :
         \E sc \in [1..n -> ScienceRows], pr \in [1..n -> PrefLists] :
            students = [i \in 1..n |-> MkStudent(i, sc[i], pr[i], Fresh)]
    /\ InitLocals

SpecDegenerate == InitDegenerate /\ [][Next]_vars

\* a sequence of calls of rankStudents, each with its own inputs
NextCalls == Next \/ Invoke

InitCalls ==
    /\ examSubjects = DEFAULT_SUBJECTS
    /\ \E input \in CallInputs :
         /\ students = input.students
         /\ plans = input.plans
    /\ InitLocals

SpecCalls == InitCalls /\ [][NextCalls]_vars

\* id the settings page gives an added subject (SUBJ-<timestamp>)
NewSubjectId == "SUBJ-1"

\* subject lists the settings page can save from the default one: unchanged,
\* one subject added, one subject deleted
SubjectConfigs ==
    {DEFAULT_SUBJECTS, handleAddTempSubject(DEFAULT_SUBJECTS, NewSubjectId)}
        \cup {handleDeleteTempSubject(DEFAULT_SUBJECTS, d) : d \in FiveSubjects}

\* the entry forms write one score per configured subject
FormScoreRows(subjects) == ScoreRows(SubjectIds(subjects), 1)

\* inputs after a change of the subject list: every student was entered
\* either under the current list or under the default one
InitConfig ==
    /\ examSubjects \in SubjectConfigs
    /\ plans = <<[id |-> "1", name |-> "X", quota |-> 1], [id |-> "2", name |-> "Y", quota |-> 1]>>
    /\ \E n \in 0..(MaxStudents + 1) :
         \E sc \in [1..n -> FormScoreRows(examSubjects) \cup FormScoreRows(DEFAULT_SUBJECTS)] :
            students = [i \in 1..n |-> MkStudent(i, sc[i], <<"X", "Y">>, Fresh)]
    /\ InitLocals

SpecConfig == InitConfig /\ [][Next]_vars

-----------------------------------------------------------------------------
(* The Dashboard: the handlers that change students, studyPlans and          *)
(* examSubjects, the state rankStudents is called with                       *)

Roles == {"SUPER_ADMIN", "VIEWER"}

\* a role test with the wrong spelling of the role
isViewerMisspelt == role = "Viewer"

\* const isViewer = currentUser?.role === 'VIEWER'
isViewer == role = "VIEWER"

\* the students the forms can hand over: an id, a score sheet, one preference
FormStudents == {MkStudent(i, sc, <<"X">>, Fresh) : i \in 1..MaxStudents, sc \in ScienceRows}

\* batches of the entry form and of the import: one or two students
Batches == {<<a>> : a \in FormStudents} \cup {<<a, b>> : a \in FormStudents, b \in FormStudents}

\* updatedList.findIndex(s => s.id === id), 0 for -1
FindIndexById(list, id) ==
    LET hits == {k \in 1..Len(list) : list[k].id = id}
    IN IF hits = {} THEN 0 ELSE CHOOSE k \in hits : \A j \in hits : k <= j

\* newStudents.forEach: replace the student of the same id, or push
RECURSIVE MergeStudents(_, _)
MergeStudents(updatedList, newStudents) ==
    IF newStudents = << >> THEN updatedList
    ELSE LET newStu == Head(newStudents)
             index == FindIndexById(updatedList, newStu.id)
         IN MergeStudents(IF index # 0 THEN [updatedList EXCEPT ![index] = newStu]
                                       ELSE Append(updatedList, newStu),
                          Tail(newStudents))

\* the optional argument originalId: << >> when it is left out, <<id>> otherwise
OriginalIds == {<< >>} \cup {<<i>> : i \in 1..MaxStudents}

\* students.map(s => s.id === (originalId || updatedStudent.id) ? updatedStudent : s)
ReplaceStudent(list, updatedStudent, originalId) ==
    LET key == IF originalId = << >> THEN updatedStudent.id ELSE originalId[1]
    IN [k \in 1..Len(list) |-> IF list[k].id = key THEN updatedStudent ELSE list[k]]

\* students.filter(s => s.id !== id)
RemoveStudent(list, id) == SelectSeq(list, LAMBDA s : s.id # id)

\* what no handler of the Dashboard writes: the role of the user, and the
\* locals of rankStudents
DashboardFrame == UNCHANGED <<role, callVars, serverVars, storeVars, appVars>>

\* the handler returned at `if (isViewer) return`
Refused(name) ==
    /\ isViewer
    /\ lastCall' = name
    /\ UNCHANGED <<students, plans, examSubjects, apiRequests, activityLog>>

\* requests are sent one after the other until one fails; the log entry is
\* written when none failed
Saved(planned) ==
    /\ apiRequests + planned <= MaxLog + 1
    /\ activityLog < MaxLog
    /\ \E sent \in 1..planned, ok \in BOOLEAN :
         /\ apiRequests' = apiRequests + sent
         /\ activityLog' = IF sent = planned /\ ok THEN activityLog + 1 ELSE activityLog

handleAddStudents ==
    /\ \E newStudents \in Batches :
         \/ Refused("handleAddStudents")
         \/ /\ ~isViewer
            /\ Len(MergeStudents(students, newStudents)) <= MaxStudents
            /\ students' = MergeStudents(students, newStudents)
            /\ Saved(1)
            /\ lastCall' = "handleAddStudents"
            /\ UNCHANGED <<plans, examSubjects>>
    /\ DashboardFrame

handleEditStudent ==
    /\ \E updatedStudent \in FormStudents, originalId \in OriginalIds :
         \/ Refused("handleEditStudent")
         \/ /\ ~isViewer
            /\ students' = ReplaceStudent(students, updatedStudent, originalId)
            /\ Saved(IF originalId # << >> /\ originalId[1] # updatedStudent.id THEN 2 ELSE 1)
            /\ lastCall' = "handleEditStudent"
            /\ UNCHANGED <<plans, examSubjects>>
    /\ DashboardFrame

handleDeleteStudent ==
    /\ \E id \in 1..MaxStudents :
         \/ Refused("handleDeleteStudent")
         \/ /\ ~isViewer
            /\ students' = RemoveStudent(students, id)
            /\ Saved(1)
            /\ lastCall' = "handleDeleteStudent"
            /\ UNCHANGED <<plans, examSubjects>>
    /\ DashboardFrame

handleUpdatePlans ==
    /\ \E newPlans \in {<<[id |-> "1", name |-> "X", quota |-> q]>> : q \in 0..MaxQuota} :
         \/ Refused("handleUpdatePlans")
         \/ /\ ~isViewer
            /\ plans' = newPlans
            /\ Saved(1)
            /\ lastCall' = "handleUpdatePlans"
            /\ UNCHANGED <<students, examSubjects>>
    /\ DashboardFrame

handleUpdateSubjects ==
    /\ \E newSubjects \in {DEFAULT_SUBJECTS, handleAddTempSubject(DEFAULT_SUBJECTS, NewSubjectId)} :
         \/ Refused("handleUpdateSubjects")
         \/ /\ ~isViewer
            /\ examSubjects' = newSubjects
            /\ Saved(1)
            /\ lastCall' = "handleUpdateSubjects"
            /\ UNCHANGED <<students, plans>>
    /\ DashboardFrame

handleResetData ==
    /\ \/ Refused("handleResetData")
       \/ /\ ~isViewer
          /\ activityLog < MaxLog
          /\ students' = << >>
          /\ activityLog' = activityLog + 1
          /\ lastCall' = "handleResetData"
          /\ UNCHANGED <<plans, examSubjects, apiRequests>>
    /\ DashboardFrame

NextDashboard ==
    \/ handleAddStudents
    \/ handleEditStudent
    \/ handleDeleteStudent
    \/ handleUpdatePlans
    \/ handleUpdateSubjects
    \/ handleResetData

\* lists of form students with distinct ids
DistinctLists ==
    UNION {{l \in [1..n -> FormStudents] : \A i, j \in 1..n : l[i].id = l[j].id => i = j} :
              n \in 0..MaxStudents}

\* the Dashboard after loadData, for a user of either role
InitDashboard ==
    /\ role \in Roles
    /\ students \in DistinctLists
    /\ plans = <<[id |-> "1", name |-> "X", quota |-> MaxQuota]>>
    /\ examSubjects = DEFAULT_SUBJECTS
    /\ apiRequests = 0
    /\ activityLog = 0
    /\ lastCall = "none"
    /\ IdleCall
    /\ IdleServer
    /\ IdleStore
    /\ IdleApp

SpecDashboard == InitDashboard /\ [][NextDashboard]_vars

-----------------------------------------------------------------------------
(* The spreadsheet backend: handleRequest, the script lock, and the          *)
(* functions that read and write the sheets. A step is one call of the       *)
(* spreadsheet service: getValues reads a sheet into the local `data`, the   *)
(* writes that follow address rows by their index in `data`. The columns     *)
(* updated_at and deleted_at are left out.                                   *)

\* the executions of the script that can run at the same time
Executions == {"e1", "e2"}

StudentRow(cid, sid, json) == [cid |-> cid, sid |-> sid, json |-> json]

\* a row of the grid below the data
BlankRow == [cid |-> "", sid |-> "", json |-> ""]

SettingsRow(cid, type) == [cid |-> cid, type |-> type]

\* the body of a request; saveSettings carries its type in the place of the
\* student id
Request(action, cid, sid, batch) ==
    [action |-> action, classroomId |-> cid, studentId |-> sid, students |-> batch]

NoRequest == Request("none", "", "", << >>)

\* the requests the clients send: all of them address classroom c1 or c3,
\* c3 being no classroom of the sheet
RequestPool ==
    {Request("getClassrooms", "", "", << >>),
     Request("saveStudent", "c1", "", <<[id |-> "s1", json |-> "a"]>>),
     Request("saveStudent", "c1", "", <<[id |-> "s1", json |-> "b"]>>),
     Request("saveStudent", "c1", "", <<[id |-> "s2", json |-> "a"]>>),
     Request("saveStudents", "c1", "", <<[id |-> "s2", json |-> "a"], [id |-> "s2", json |-> "b"]>>),
     Request("saveStudents", "c1", "", <<[id |-> "s1", json |-> "b"], [id |-> "s2", json |-> "a"]>>),
     Request("deleteStudent", "c1", "s1", << >>),
     Request("deleteClassroom", "c1", "", << >>),
     Request("deleteClassroom", "c3", "", << >>),
     Request("saveClassroom", "c3", "", << >>),
     Request("saveSettings", "c1", "SUBJECTS", << >>),
     Request("getDashboardData", "c1", "", << >>)}

IdleExecution ==
    [pc |-> "idle", request |-> NoRequest, holdsLock |-> FALSE, data |-> << >>,
     before |-> << >>, status |-> "none"]

\* the execution has passed tryLock and has not reached the finally block
InAction(e) == req[e].pc \notin {"idle", "tryLock", "finally"}

\* doGet / doPost: a request arrives and an execution of handleRequest starts
Receive(e) ==
    /\ req[e].pc = "idle"
    /\ served < MaxRequests
    /\ \E r \in RequestPool :
         req' = [req EXCEPT ![e] = [IdleExecution EXCEPT !.pc = "tryLock", !.request = r]]
    /\ served' = served + 1
    /\ UNCHANGED <<dbClassrooms, dbStudents, dbSettings, scriptLock, lastSaved>>
    /\ ServerFrame

\* lock.tryLock(30000) returns true: the lock was free, or was released in time
tryLockAcquired(e) ==
    /\ req[e].pc = "tryLock"
    /\ scriptLock = "free"
    /\ scriptLock' = e
    /\ req' = [req EXCEPT ![e].pc = "dispatch", ![e].holdsLock = TRUE]
    /\ UNCHANGED <<dbClassrooms, dbStudents, dbSettings, served, lastSaved>>
    /\ ServerFrame

\* lock.tryLock(30000) returns false after 30 seconds: another execution still
\* holds the lock; the result is not looked at and the execution goes on
tryLockTimedOut(e) ==
    /\ req[e].pc = "tryLock"
    /\ scriptLock \notin {"free", e}
    /\ req' = [req EXCEPT ![e].pc = "dispatch", ![e].holdsLock = FALSE]
    /\ UNCHANGED <<dbClassrooms, dbStudents, dbSettings, scriptLock, served, lastSaved>>
    /\ ServerFrame

\* getClassrooms and getDashboardData read the sheets and change none
getClassrooms(e) ==
    /\ req[e].pc = "dispatch"
    /\ req[e].request.action \in {"getClassrooms", "getDashboardData"}
    /\ req' = [req EXCEPT ![e].pc = "finally", ![e].status = "success"]
    /\ UNCHANGED <<dbClassrooms, dbStudents, dbSettings, scriptLock, served, lastSaved>>
    /\ ServerFrame

\* sheet.getDataRange().getValues(): the sheet a function is about to scan
getValues(e) ==
    /\ \/ /\ req[e].pc = "dispatch"
          /\ req[e].request.action \in {"saveStudent", "saveStudents", "deleteStudent"}
          /\ req' = [req EXCEPT ![e].pc = req[e].request.action, ![e].data = dbStudents]
       \/ /\ req[e].pc = "dispatch"
          /\ req[e].request.action = "saveClassroom"
          /\ req' = [req EXCEPT ![e].pc = "saveClassroom", ![e].data = dbClassrooms]
       \/ /\ req[e].pc = "dispatch"
          /\ req[e].request.action = "saveSettings"
          /\ req' = [req EXCEPT ![e].pc = "saveSettings", ![e].data = dbSettings]
       \/ /\ req[e].pc = "dispatch"
          /\ req[e].request.action = "deleteClassroom"
          /\ req' = [req EXCEPT ![e].pc = "deleteClassroom", ![e].data = dbClassrooms,
                                ![e].before = <<dbClassrooms, dbStudents, dbSettings>>]
       \/ /\ req[e].pc = "relatedStudents"
          /\ req' = [req EXCEPT ![e].pc = "deleteStudents", ![e].data = dbStudents]
       \/ /\ req[e].pc = "relatedSettings"
          /\ req' = [req EXCEPT ![e].pc = "deleteSettings", ![e].data = dbSettings]
    /\ UNCHANGED <<dbClassrooms, dbStudents, dbSettings, scriptLock, served, lastSaved>>
    /\ ServerFrame

\* the smallest and the largest element of a non-empty set of row indices
Lowest(S) == CHOOSE k \in S : \A j \in S : k <= j
Highest(S) == CHOOSE k \in S : \A j \in S : j <= k

\* the rows of `data` of a classroom and a student
Matches(data, cid, sid) == {k \in 1..Len(data) : data[k].cid = cid /\ data[k].sid = sid}

\* the rows of `data` of a classroom
RowsOf(data, cid) == {k \in 1..Len(data) : data[k].cid = cid}

\* sheet.getRange(i + 1, 3).setValue(json): below the data the cell lies in a
\* blank row of the grid
SetJson(sheet, i, json) ==
    IF i <= Len(sheet) THEN [sheet EXCEPT ![i].json = json]
    ELSE [k \in 1..i |-> IF k <= Len(sheet) THEN sheet[k]
                         ELSE IF k = i THEN [BlankRow EXCEPT !.json = json]
                         ELSE BlankRow]

\* sheet.deleteRow(i + 1): below the data a blank row of the grid goes
DeleteRow(sheet, i) ==
    IF i <= Len(sheet) THEN [k \in 1..(Len(sheet) - 1) |-> IF k < i THEN sheet[k] ELSE sheet[k + 1]]
    ELSE sheet

\* the backward loop of deleteClassroom over the rows it found in `data`
RECURSIVE DeleteRows(_, _)
DeleteRows(sheet, found) ==
    IF found = {} THEN sheet
    ELSE DeleteRows(DeleteRow(sheet, Highest(found)), found \ {Highest(found)})

\* students.forEach of saveStudents: rows known to indexMap are overwritten,
\* the others are collected in newRows and appended at the end
RECURSIVE WriteBatchFrom(_, _, _, _, _)
WriteBatchFrom(sheet, indexMap, cid, batch, newRows) ==
    IF batch = << >> THEN sheet \o newRows
    ELSE LET student == Head(batch)
         IN IF student.id \in DOMAIN indexMap
            THEN WriteBatchFrom(SetJson(sheet, indexMap[student.id], student.json),
                                indexMap, cid, Tail(batch), newRows)
            ELSE WriteBatchFrom(sheet, indexMap, cid, Tail(batch),
                                Append(newRows, StudentRow(cid, student.id, student.json)))

WriteBatch(sheet, indexMap, cid, batch) == WriteBatchFrom(sheet, indexMap, cid, batch, << >>)

\* indexMap of saveStudents: student id -> index in `data`, the last row of an
\* id wins
IndexMap(data, cid) ==
    [sid \in {data[k].sid : k \in RowsOf(data, cid)} |-> Highest(Matches(data, cid, sid))]

\* the data of the last save of each student of a batch
RECURSIVE SavedBy(_, _, _)
SavedBy(saved, cid, batch) ==
    IF batch = << >> THEN saved
    ELSE SavedBy([saved EXCEPT ![<<cid, Head(batch).id>>] = Head(batch).json], cid, Tail(batch))

\* saveStudent after its getValues: overwrite the first row found, or append
saveStudent(e) ==
    /\ req[e].pc = "saveStudent"
    /\ LET cid == req[e].request.classroomId
           student == req[e].request.students[1]
           found == Matches(req[e].data, cid, student.id)
       IN /\ dbStudents' = IF found # {} THEN SetJson(dbStudents, Lowest(found), student.json)
                           ELSE Append(dbStudents, StudentRow(cid, student.id, student.json))
          /\ lastSaved' = SavedBy(lastSaved, cid, req[e].request.students)
    /\ req' = [req EXCEPT ![e].pc = "finally", ![e].status = "success"]
    /\ UNCHANGED <<dbClassrooms, dbSettings, scriptLock, served>>
    /\ ServerFrame

\* saveStudents after its getValues
saveStudents(e) ==
    /\ req[e].pc = "saveStudents"
    /\ LET cid == req[e].request.classroomId
       IN /\ dbStudents' = WriteBatch(dbStudents, IndexMap(req[e].data, cid), cid,
                                      req[e].request.students)
          /\ lastSaved' = SavedBy(lastSaved, cid, req[e].request.students)
    /\ req' = [req EXCEPT ![e].pc = "finally", ![e].status = "success"]
    /\ UNCHANGED <<dbClassrooms, dbSettings, scriptLock, served>>
    /\ ServerFrame

\* deleteStudent after its getValues: delete the first row found
deleteStudent(e) ==
    /\ req[e].pc = "deleteStudent"
    /\ LET cid == req[e].request.classroomId
           sid == req[e].request.studentId
           found == Matches(req[e].data, cid, sid)
       IN /\ dbStudents' = IF found # {} THEN DeleteRow(dbStudents, Lowest(found)) ELSE dbStudents
          /\ lastSaved' = [lastSaved EXCEPT ![<<cid, sid>>] = ""]
    /\ req' = [req EXCEPT ![e].pc = "finally", ![e].status = "success"]
    /\ UNCHANGED <<dbClassrooms, dbSettings, scriptLock, served>>
    /\ ServerFrame

\* a cell of row i is set: a row of the sheet keeps its key, below the data
\* the cell lies in a blank row of the grid
TouchRow(sheet, i, blank) ==
    IF i <= Len(sheet) THEN sheet
    ELSE [k \in 1..i |-> IF k <= Len(sheet) THEN sheet[k] ELSE blank]

\* saveClassroom after its getValues: overwrite the first row found, or append
saveClassroom(e) ==
    /\ req[e].pc = "saveClassroom"
    /\ LET id == req[e].request.classroomId
           found == {k \in 1..Len(req[e].data) : req[e].data[k] = id}
       IN dbClassrooms' = IF found # {} THEN TouchRow(dbClassrooms, Lowest(found), "")
                          ELSE Append(dbClassrooms, id)
    /\ req' = [req EXCEPT ![e].pc = "finally", ![e].status = "success"]
    /\ UNCHANGED <<dbStudents, dbSettings, scriptLock, served, lastSaved>>
    /\ ServerFrame

\* saveSettings after its getValues: overwrite the first row found, or append
saveSettings(e) ==
    /\ req[e].pc = "saveSettings"
    /\ LET cid == req[e].request.classroomId
           type == req[e].request.studentId
           found == {k \in 1..Len(req[e].data) :
                        req[e].data[k].cid = cid /\ req[e].data[k].type = type}
       IN dbSettings' = IF found # {} THEN TouchRow(dbSettings, Lowest(found), SettingsRow("", ""))
                        ELSE Append(dbSettings, SettingsRow(cid, type))
    /\ req' = [req EXCEPT ![e].pc = "finally", ![e].status = "success"]
    /\ UNCHANGED <<dbClassrooms, dbStudents, scriptLock, served, lastSaved>>
    /\ ServerFrame

\* deleteClassroom, step 1: delete the classroom row, or return the error
deleteClassroom(e) ==
    /\ req[e].pc = "deleteClassroom"
    /\ LET found == {k \in 1..Len(req[e].data) : req[e].data[k] = req[e].request.classroomId}
       IN IF found = {}
          THEN /\ req' = [req EXCEPT ![e].pc = "finally", ![e].status = "error"]
               /\ UNCHANGED dbClassrooms
          ELSE /\ req' = [req EXCEPT ![e].pc = "relatedStudents"]
               /\ dbClassrooms' = DeleteRow(dbClassrooms, Highest(found))
    /\ UNCHANGED <<dbStudents, dbSettings, scriptLock, served, lastSaved>>
    /\ ServerFrame

\* deleteClassroom, step 2: delete the student rows found in `data`
deleteRelatedStudents(e) ==
    /\ req[e].pc = "deleteStudents"
    /\ LET cid == req[e].request.classroomId
       IN /\ dbStudents' = DeleteRows(dbStudents, RowsOf(req[e].data, cid))
          /\ lastSaved' = [key \in DOMAIN lastSaved |-> IF key[1] = cid THEN "" ELSE lastSaved[key]]
    /\ req' = [req EXCEPT ![e].pc = "relatedSettings"]
    /\ UNCHANGED <<dbClassrooms, dbSettings, scriptLock, served>>
    /\ ServerFrame

\* deleteClassroom, step 3: delete the settings rows found in `data`
deleteRelatedSettings(e) ==
    /\ req[e].pc = "deleteSettings"
    /\ dbSettings' = DeleteRows(dbSettings, RowsOf(req[e].data, req[e].request.classroomId))
    /\ req' = [req EXCEPT ![e].pc = "finally", ![e].status = "success"]
    /\ UNCHANGED <<dbClassrooms, dbStudents, scriptLock, served, lastSaved>>
    /\ ServerFrame

\* finally { lock.releaseLock() }: releases the lock if this execution holds it
releaseLock(e) ==
    /\ req[e].pc = "finally"
    /\ scriptLock' = IF scriptLock = e THEN "free" ELSE scriptLock
    /\ req' = [req EXCEPT ![e] = IdleExecution]
    /\ UNCHANGED <<dbClassrooms, dbStudents, dbSettings, served, lastSaved>>
    /\ ServerFrame

NextServer ==
    \E e \in Executions :
        \/ Receive(e)
        \/ tryLockAcquired(e)
        \/ tryLockTimedOut(e)
        \/ getClassrooms(e)
        \/ getValues(e)
        \/ saveStudent(e)
        \/ saveStudents(e)
        \/ deleteStudent(e)
        \/ saveClassroom(e)
        \/ saveSettings(e)
        \/ deleteClassroom(e)
        \/ deleteRelatedStudents(e)
        \/ deleteRelatedSettings(e)
        \/ releaseLock(e)

\* the keys of DB_Students the requests and the sheet use
StudentKeys == {"c1", "c2", "c3"} \X {"s1", "s2"}

\* a database of two classrooms, each with one student and its plans; no key
\* occurs twice
InitServer ==
    /\ dbClassrooms = <<"c1", "c2">>
    /\ dbStudents = <<StudentRow("c1", "s1", "a"), StudentRow("c2", "s1", "a")>>
    /\ dbSettings = <<SettingsRow("c1", "PLANS"), SettingsRow("c2", "PLANS")>>
    /\ scriptLock = "free"
    /\ req = [e \in Executions |-> IdleExecution]
    /\ served = 0
    /\ lastSaved = [key \in StudentKeys |->
                       IF key \in {<<"c1", "s1">>, <<"c2", "s1">>} THEN "a" ELSE ""]
    /\ students = << >>
    /\ plans = << >>
    /\ examSubjects = DEFAULT_SUBJECTS
    /\ IdleCall
    /\ IdleDashboard
    /\ IdleStore
    /\ IdleApp

SpecServer == InitServer /\ [][NextServer]_vars

-----------------------------------------------------------------------------
(* The user store (services/storage): the list under APP_ADMIN_USERS         *)

User(id, username) == [id |-> id, username |-> username]

DEFAULT_ADMIN == User("admin-001", "Admin")

\* the users the callers pass to addUser and updateUser
UserValues == {User(id, name) : id \in {"admin-001", "u1"}, name \in {"Admin", "bob", "root"}}

\* localStorage without the key APP_ADMIN_USERS
NotStored == [stored |-> FALSE, list |-> << >>]

Stored(list) == [stored |-> TRUE, list |-> list]

\* getUsers(): the stored list; the default administrator when nothing is stored
getUsers(store) == IF store.stored THEN store.list ELSE <<DEFAULT_ADMIN>>

\* what a call of the store reports: its name, its argument, whether it threw
Outcome(call, arg, threw) == [call |-> call, arg |-> arg, threw |-> threw]

\* users.findIndex(u => u.id === id), 0 for -1; users.find gives that user
FindUser(list, id) ==
    LET hits == {k \in 1..Len(list) : list[k].id = id}
    IN IF hits = {} THEN 0 ELSE CHOOSE k \in hits : \A j \in hits : k <= j

\* the test of deleteUser on the user it found
IsMainAdmin(list, index) ==
    index # 0 /\ (list[index].username = "Admin" \/ list[index].id = "admin-001")

addUser ==
    /\ \E user \in UserValues :
         LET list == getUsers(users)
         IN IF \E k \in 1..Len(list) : list[k].username = user.username
            THEN /\ users' = Stored(list)
                 /\ thrown' = Outcome("addUser", user.username, TRUE)
            ELSE /\ Len(list) < MaxUsers
                 /\ users' = Stored(Append(list, user))
                 /\ thrown' = Outcome("addUser", user.username, FALSE)
    /\ StoreFrame

updateUser ==
    /\ \E updatedUser \in UserValues :
         LET list == getUsers(users)
             index == FindUser(list, updatedUser.id)
         IN /\ users' = Stored(IF index # 0 THEN [list EXCEPT ![index] = updatedUser] ELSE list)
            /\ thrown' = Outcome("updateUser", updatedUser.id, FALSE)
    /\ StoreFrame

deleteUser ==
    /\ \E userId \in {"admin-001", "u1"} :
         LET list == getUsers(users)
             target == FindUser(list, userId)
         IN IF IsMainAdmin(list, target)
            THEN /\ users' = Stored(list)
                 /\ thrown' = Outcome("deleteUser", userId, TRUE)
            ELSE /\ users' = Stored(SelectSeq(list, LAMBDA u : u.id # userId))
                 /\ thrown' = Outcome("deleteUser", userId, FALSE)
    /\ StoreFrame

NextStore == addUser \/ updateUser \/ deleteUser

\* the default store: nothing under APP_ADMIN_USERS yet
InitStore ==
    /\ users = NotStored
    /\ thrown = Outcome("none", "", FALSE)
    /\ students = << >>
    /\ plans = << >>
    /\ examSubjects = DEFAULT_SUBJECTS
    /\ IdleCall
    /\ IdleDashboard
    /\ IdleServer
    /\ IdleApp

SpecStore == InitStore /\ [][NextStore]_vars

-----------------------------------------------------------------------------
(* The App: the view shown, the logged-in user and the stored session       *)

\* the users that can log in, by username
AppUsers == {"Admin", "bob", "eve"}

Classrooms == {"c1", "c2", "c3"}

\* storage.getSession(): the stored user, or null
getSession == session

\* LandingPage reports a login; it may have stored the session before
handleLoginSuccess ==
    /\ view = "LANDING"
    /\ \E user \in AppUsers :
         /\ currentUser' = user
         /\ session' \in {session, user}
    /\ view' = "CLASSROOMS"
    /\ lastEvent' = "handleLoginSuccess"
    /\ UNCHANGED <<selectedClassroom, showLogoutConfirm>>
    /\ AppFrame

handleSelectClassroom ==
    /\ view = "CLASSROOMS"
    /\ \E classroom \in Classrooms : selectedClassroom' = classroom
    /\ view' = "DASHBOARD"
    /\ lastEvent' = "handleSelectClassroom"
    /\ UNCHANGED <<currentUser, showLogoutConfirm, session>>
    /\ AppFrame

handleBackToClassrooms ==
    /\ view = "DASHBOARD"
    /\ selectedClassroom # Null
    /\ view' = "CLASSROOMS"
    /\ selectedClassroom' = Null
    /\ lastEvent' = "handleBackToClassrooms"
    /\ UNCHANGED <<currentUser, showLogoutConfirm, session>>
    /\ AppFrame

\* onOpenSystemAdmin={() => setView('SYSTEM_ADMIN')}
onOpenSystemAdmin ==
    /\ view = "CLASSROOMS"
    /\ view' = "SYSTEM_ADMIN"
    /\ lastEvent' = "onOpenSystemAdmin"
    /\ UNCHANGED <<currentUser, selectedClassroom, showLogoutConfirm, session>>
    /\ AppFrame

\* SystemAdmin onBack={() => setView('CLASSROOMS')}
onBack ==
    /\ view = "SYSTEM_ADMIN"
    /\ view' = "CLASSROOMS"
    /\ lastEvent' = "onBack"
    /\ UNCHANGED <<currentUser, selectedClassroom, showLogoutConfirm, session>>
    /\ AppFrame

\* onLogout of ClassroomSelection and of Dashboard
handleLogoutRequest ==
    /\ \/ view = "CLASSROOMS"
       \/ view = "DASHBOARD" /\ selectedClassroom # Null
    /\ showLogoutConfirm' = TRUE
    /\ lastEvent' = "handleLogoutRequest"
    /\ UNCHANGED <<view, currentUser, selectedClassroom, session>>
    /\ AppFrame

\* the cancel button and the backdrop of the modal
cancelLogout ==
    /\ showLogoutConfirm
    /\ showLogoutConfirm' = FALSE
    /\ lastEvent' = "cancelLogout"
    /\ UNCHANGED <<view, currentUser, selectedClassroom, session>>
    /\ AppFrame

\* a logout that goes back to the landing page and leaves the user logged in
handleConfirmLogoutViewOnly ==
    /\ showLogoutConfirm
    /\ session' = Null
    /\ view' = "LANDING"
    /\ selectedClassroom' = Null
    /\ showLogoutConfirm' = FALSE
    /\ lastEvent' = "handleConfirmLogout"
    /\ UNCHANGED currentUser
    /\ AppFrame

handleConfirmLogout ==
    /\ showLogoutConfirm
    /\ session' = Null
    /\ view' = "LANDING"
    /\ selectedClassroom' = Null
    /\ currentUser' = Null
    /\ showLogoutConfirm' = FALSE
    /\ lastEvent' = "handleConfirmLogout"
    /\ AppFrame

NextApp ==
    \/ handleLoginSuccess
    \/ handleSelectClassroom
    \/ handleBackToClassrooms
    \/ onOpenSystemAdmin
    \/ onBack
    \/ handleLogoutRequest
    \/ cancelLogout
    \/ handleConfirmLogout

\* the lazy initial state: the user and the view come from the stored session
InitApp ==
    /\ session \in AppUsers \cup {Null}
    /\ currentUser = getSession
    /\ view = IF getSession # Null THEN "CLASSROOMS" ELSE "LANDING"
    /\ selectedClassroom = Null
    /\ showLogoutConfirm = FALSE
    /\ lastEvent = "none"
    /\ students = << >>
    /\ plans = << >>
    /\ examSubjects = DEFAULT_SUBJECTS
    /\ IdleCall
    /\ IdleDashboard
    /\ IdleServer
    /\ IdleStore

SpecApp == InitApp /\ [][NextApp]_vars

-----------------------------------------------------------------------------
(* Vocabulary of the properties *)

\* positions of seq whose record is allocated to track t
AssignedTo(seq, t) == {k \in 1..Len(seq) : seq[k].qualifiedStream = t}

PlanNames == {plans[i].name : i \in 1..Len(plans)}

\* the quota of the plan named t, for plans with distinct names
QuotaOf(t) == plans[CHOOSE i \in 1..Len(plans) : plans[i].name = t].quota

\* the data model of the track definitions: distinct names, quotas >= 0
WellFormedPlans ==
    /\ \A i, j \in 1..Len(plans) : plans[i].name = plans[j].name => i = j
    /\ \A i \in 1..Len(plans) : plans[i].quota >= 0

RankOf(r) == r.rank.v

\* position of the first occurrence of t in prefs, Len(prefs) + 1 when absent
FirstIndex(prefs, t) ==
    IF \E k \in 1..Len(prefs) : prefs[k] = t
      THEN CHOOSE k \in 1..Len(prefs) : prefs[k] = t /\ \A j \in 1..(k - 1) : prefs[j] # t
      ELSE Len(prefs) + 1

\* the configured tracks the student passed over: those listed before the
\* assigned one, or the whole list when the student is unassigned
PassedOver(r) ==
    {r.preferredStreams[k] : k \in 1..(FirstIndex(r.preferredStreams, r.qualifiedStream) - 1)}
        \cap PlanNames

-----------------------------------------------------------------------------
(* C1: with distinct track names and non-negative quotas, at every step of  *)
(* the allocation pass and in the final result, the number of students      *)
(* allocated to a track never exceeds the track's quota.                    *)
C1_CapacityInvariant ==
    WellFormedPlans =>
        \A t \in PlanNames : Cardinality(AssignedTo(result, t)) <= QuotaOf(t)

\* a track filled to a positive quota that turned a student away
C1_Witness ==
    /\ pc = "done"
    /\ \E t \in PlanNames :
         /\ QuotaOf(t) > 0
         /\ Cardinality(AssignedTo(result, t)) = QuotaOf(t)
         /\ \E k \in 1..Len(result) :
              /\ result[k].preferredStreams # << >>
              /\ result[k].preferredStreams[1] = t
              /\ result[k].qualifiedStream # t

\* A and B both name as first preference the track t of capacity 1, A is
\* ranked better than B, and nobody ranked better than A holds t
SharedFirstChoice(a, b, t) ==
    /\ RankOf(result[a]) < RankOf(result[b])
    /\ result[a].preferredStreams # << >> /\ result[a].preferredStreams[1] = t
    /\ result[b].preferredStreams # << >> /\ result[b].preferredStreams[1] = t
    /\ QuotaOf(t) = 1
    /\ \A c \in 1..Len(result) :
         RankOf(result[c]) < RankOf(result[a]) => result[c].qualifiedStream # t

(* C2: monotonic fairness. Of two students with the same first preference,  *)
(* a configured track of capacity 1 that no better-ranked student has       *)
(* taken, the better-ranked one gets the track and the other does not.      *)
C2_MonotonicFairness ==
    pc = "done" =>
        \A a, b \in 1..Len(result) : \A t \in PlanNames :
            SharedFirstChoice(a, b, t) =>
                /\ result[a].qualifiedStream = t
                /\ result[b].qualifiedStream # t

\* the contended pair in which the loser comes first in the input
C2_Witness ==
    /\ pc = "done"
    /\ \E a, b \in 1..Len(result) : \E t \in PlanNames :
         /\ SharedFirstChoice(a, b, t)
         /\ result[a].id > result[b].id

(* C3: contention is resolved in favour of the better-ranked student. In    *)
(* the result, every configured track that a student B passed over (listed  *)
(* before B's assigned track, or anywhere when B is unassigned) is filled   *)
(* to its quota, and by students ranked strictly better than B.             *)
C3_ContentionFavoursHigherRank ==
    pc = "done" =>
        \A b \in 1..Len(result) : \A t \in PassedOver(result[b]) :
            /\ Cardinality(AssignedTo(result, t)) = QuotaOf(t)
            /\ \A a \in AssignedTo(result, t) : RankOf(result[a]) < RankOf(result[b])

\* a student who lost the first choice to a better-ranked one and took the second
C3_Witness ==
    /\ pc = "done"
    /\ \E b \in 1..Len(result) : \E t \in PassedOver(result[b]) :
         /\ AssignedTo(result, t) # {}
         /\ result[b].qualifiedStream # Null

-----------------------------------------------------------------------------
(* Ranking properties *)

\* the mark on the score sheet under key k, 0 when the sheet has no such key
Mark(r, k) == IF k \in DOMAIN r.scores THEN r.scores[k] ELSE 0

\* the sum of the five subject scores, straight from the score sheet
SumOfFive(r) ==
    Mark(r, "math") + Mark(r, "science") + Mark(r, "thai")
        + Mark(r, "english") + Mark(r, "social")

HasAllFive(r) == FiveSubjects \subseteq DOMAIN r.scores

\* (totalScore, science, math, english, thai, social) of a result record
RankKey(r) ==
    <<r.totalScore.v, r.scores["science"], r.scores["math"], r.scores["english"],
      r.scores["thai"], r.scores["social"]>>

\* the same tuple read from the score sheet alone
SheetKey(r) ==
    <<SumOfFive(r), Mark(r, "science"), Mark(r, "math"), Mark(r, "english"),
      Mark(r, "thai"), Mark(r, "social")>>

LexGreater(u, v) ==
    \E k \in 1..Len(u) : u[k] > v[k] /\ \A j \in 1..(k - 1) : u[j] = v[j]

LexGreaterOrEqual(u, v) == u = v \/ LexGreater(u, v)

\* the result record of the input student with id i
ResultOf(i) == result[CHOOSE k \in 1..Len(result) : result[k].id = i]

(* C4: for N input students the ranks of the result are exactly 1..N, each  *)
(* held by exactly one student; no rank number is shared between ties.      *)
C4_RankPermutation ==
    pc = "done" =>
        /\ Len(result) = Len(students)
        /\ \A k \in 1..Len(result) : IsNum(result[k].rank)
        /\ \A r \in 1..Len(students) :
             Cardinality({k \in 1..Len(result) : RankOf(result[k]) = r}) = 1

\* two students tied on every key hold ranks 1 and 2
C4_Witness ==
    /\ pc = "done"
    /\ \E a, b \in 1..Len(result) :
         /\ RankOf(result[a]) = 1 /\ RankOf(result[b]) = 2
         /\ result[a].scores = result[b].scores

(* C5: rank order follows the comparator. For students A and B of the       *)
(* result with rank(A) < rank(B), the tuple (totalScore, science, math,     *)
(* english, thai, social) of A is lexicographically >= that of B.           *)
C5_RankFollowsComparator ==
    pc = "done" =>
        \A a, b \in 1..Len(result) :
            RankOf(result[a]) < RankOf(result[b]) =>
                LexGreaterOrEqual(RankKey(result[a]), RankKey(result[b]))

\* a pair with equal totals and equal science that math decides, given in
\* the input in the opposite order
C5_Witness ==
    /\ pc = "done"
    /\ \E a, b \in 1..Len(result) :
         /\ RankOf(result[a]) < RankOf(result[b])
         /\ result[a].id > result[b].id
         /\ result[a].totalScore = result[b].totalScore
         /\ result[a].scores["science"] = result[b].scores["science"]
         /\ result[a].scores["math"] > result[b].scores["math"]

\* the input students whose score sheet equals that of student i
SameSheet(i) == {j \in 1..Len(students) : students[j].scores = students[i].scores}

(* C6: students with identical scores on every subject receive distinct     *)
(* consecutive ranks, in the order in which they stand in the input.        *)
C6_StableTies ==
    pc = "done" =>
        \A i \in 1..Len(students) : \A j \in SameSheet(i) :
            i < j =>
                /\ RankOf(ResultOf(i)) < RankOf(ResultOf(j))
                /\ \A k \in 1..Len(students) :
                     (RankOf(ResultOf(i)) < RankOf(ResultOf(k))
                        /\ RankOf(ResultOf(k)) < RankOf(ResultOf(j))) => k \in SameSheet(i)

\* two students with the same score sheet at adjacent ranks
C6_Witness ==
    /\ pc = "done"
    /\ \E i, j \in 1..Len(students) :
         /\ i < j
         /\ students[i].scores = students[j].scores
         /\ RankOf(ResultOf(j)) = RankOf(ResultOf(i)) + 1

\* the rank the score sheets alone give the input student i: one more than
\* the number of students with a greater key or an equal key and earlier place
RankFromSheets(i) ==
    1 + Cardinality({j \in 1..Len(students) :
            \/ LexGreater(SheetKey(students[j]), SheetKey(students[i]))
            \/ (SheetKey(students[j]) = SheetKey(students[i]) /\ j < i)})

\* the track the waterfall gives the student ranked r when every student
\* lists X then Y and each of the two tracks has room for one
StreamForRank(r) == IF r = 1 THEN "X" ELSE IF r = 2 THEN "Y" ELSE Null

(* C7: for students with all five subject scores, totalScore in the result  *)
(* is the exact sum of the five, recomputed on every call: totalScore, rank *)
(* and qualifiedStream values already on the input record are overwritten   *)
(* and do not influence the result.                                         *)
C7_TotalRecomputed ==
    pc = "done" =>
        \A i \in 1..Len(students) :
            HasAllFive(students[i]) =>
                /\ ResultOf(i).totalScore = Num(SumOfFive(students[i]))
                /\ ((\A j \in 1..Len(students) : HasAllFive(students[j])) =>
                      /\ RankOf(ResultOf(i)) = RankFromSheets(i)
                      /\ (\A j \in 1..Len(students) : students[j].preferredStreams = <<"X", "Y">>)
                            => ResultOf(i).qualifiedStream = StreamForRank(RankOf(ResultOf(i))))

\* a re-submitted record whose old total, rank and stream were all replaced
C7_Witness ==
    /\ pc = "done"
    /\ \E i \in 1..Len(students) :
         /\ students[i].totalScore = Num(9)
         /\ students[i].rank = Num(7)
         /\ students[i].qualifiedStream = "Y"
         /\ ResultOf(i).totalScore = Num(SumOfFive(students[i]))
         /\ ResultOf(i).rank = Num(1)
         /\ ResultOf(i).qualifiedStream = "X"

-----------------------------------------------------------------------------
(* Subject configuration and missing scores *)

\* the sum of the marks under the keys of K, a missing key counting 0
SumOfKeys(r, K) == SumOver([k \in K |-> Mark(r, k)], K)

(* C8: the aggregator works over the configured subject keys. When the      *)
(* configured subjects differ from the default five, totalScore is the sum  *)
(* of the student's scores over exactly the configured keys.                *)
C8_ConfiguredSubjectsSummed ==
    (pc = "done" /\ SubjectIds(examSubjects) # FiveSubjects) =>
        \A i \in 1..Len(students) :
            ResultOf(i).totalScore = Num(SumOfKeys(students[i], SubjectIds(examSubjects)))

(* C9: calculateTotal treats a missing subject key as 0. For a student      *)
(* whose score sheet lacks subject keys the total is the sum of the scores  *)
(* that are present.                                                        *)
C9_MissingKeyCountsZero ==
    \A k \in 1..Len(processed) :
        ~HasAllFive(processed[k]) =>
            processed[k].totalScore
                = Num(SumOfKeys(processed[k], FiveSubjects \cap DOMAIN processed[k].scores))

(* C10: a student missing a tie-break key is ranked as if the score were 0. *)
(* The rank order equals the one obtained after replacing every missing     *)
(* score by 0, and the students with complete sheets stand among            *)
(* themselves in comparator order.                                          *)
C10_MissingKeyRankedAsZero ==
    (pc = "done" /\ \E i \in 1..Len(students) : ~HasAllFive(students[i])) =>
        /\ \A i \in 1..Len(students) : RankOf(ResultOf(i)) = RankFromSheets(i)
        /\ \A i, j \in 1..Len(students) :
             (HasAllFive(students[i]) /\ HasAllFive(students[j])
                /\ RankOf(ResultOf(i)) < RankOf(ResultOf(j)))
                => LexGreaterOrEqual(SheetKey(students[i]), SheetKey(students[j]))

-----------------------------------------------------------------------------
(* Allocation properties *)

Entries(prefs) == {prefs[k] : k \in 1..Len(prefs)}

(* C11: preference containment. Every student of the result whose           *)
(* qualifiedStream is not null holds exactly one track, which stands in the *)
(* student's own preference list and is the name of a configured track.     *)
C11_PreferenceContainment ==
    \A k \in 1..Len(result) :
        \/ result[k].qualifiedStream = Null
        \/ /\ result[k].qualifiedStream \in Entries(result[k].preferredStreams)
           /\ result[k].qualifiedStream \in PlanNames
           /\ Cardinality({t \in PlanNames : k \in AssignedTo(result, t)}) = 1

\* a student without any usable preference stays unassigned while a track
\* still has room
C11_Witness ==
    /\ pc = "done"
    /\ \E k \in 1..Len(result) :
         /\ result[k].qualifiedStream = Null
         /\ \E t \in PlanNames : Cardinality(AssignedTo(result, t)) < QuotaOf(t)
    /\ \E k \in 1..Len(result) : result[k].qualifiedStream # Null

\* a step in which one student is processed
AllocStep == Len(result') = Len(result) + 1

\* the student processed by the step
Allocated == result'[Len(result')]

\* remaining capacity of the configured track t before and after the step
Remaining(t) == planQuotas[t] - quotaUsage[t]
RemainingAfter(t) == planQuotas'[t] - quotaUsage'[t]

\* positions of prefs that name a configured track with remaining capacity
EligibleEntries(prefs) ==
    {k \in 1..Len(prefs) : prefs[k] \in DOMAIN planQuotas /\ Remaining(prefs[k]) > 0}

FirstOf(S) == CHOOSE k \in S : \A j \in S : k <= j

(* C12: first eligible match wins. When a student is processed and some     *)
(* entry of the preference list names a configured track with remaining     *)
(* capacity, the student gets the earliest such entry, that track's         *)
(* remaining capacity drops by exactly 1 and no other track's changes.      *)
C12_FirstEligibleWins ==
    [][AllocStep =>
        LET prefs == Allocated.preferredStreams
            E == EligibleEntries(prefs)
        IN E # {} =>
            /\ Allocated.qualifiedStream = prefs[FirstOf(E)]
            /\ RemainingAfter(prefs[FirstOf(E)]) = Remaining(prefs[FirstOf(E)]) - 1
            /\ \A t \in DOMAIN planQuotas \ {prefs[FirstOf(E)]} :
                 RemainingAfter(t) = Remaining(t)
            /\ planQuotas' = planQuotas]_vars

\* the student just processed took the second entry of the list, the first
\* being a configured track that was full
C12_Witness ==
    /\ pc = "allocating"
    /\ Len(result) >= 1
    /\ LET last == result[Len(result)] IN
         /\ Len(last.preferredStreams) = 2
         /\ last.preferredStreams[1] \in PlanNames
         /\ QuotaOf(last.preferredStreams[1]) > 0
         /\ last.preferredStreams[2] # last.preferredStreams[1]
         /\ last.qualifiedStream = last.preferredStreams[2]
         /\ quotaUsage[last.qualifiedStream] = 1

\* the first m entries of prefs are names of no configured track
UnknownPrefix(prefs, m) ==
    /\ m <= Len(prefs)
    /\ \A k \in 1..m : prefs[k] \notin DOMAIN planQuotas

(* C13: unknown track names are skipped without consuming capacity. A       *)
(* student whose list starts with unknown names followed by a configured    *)
(* track with free capacity gets that track; a student whose only           *)
(* preferences are unknown names is unassigned and no counter changes,      *)
(* even when tracks have free capacity.                                     *)
C13_UnknownNamesSkipped ==
    [][AllocStep =>
        LET prefs == Allocated.preferredStreams IN
        /\ DOMAIN quotaUsage' = DOMAIN quotaUsage
        /\ (prefs # << >> /\ UnknownPrefix(prefs, Len(prefs))) =>
              /\ Allocated.qualifiedStream = Null
              /\ quotaUsage' = quotaUsage
        /\ \A m \in 1..(Len(prefs) - 1) :
              (UnknownPrefix(prefs, m) /\ (m + 1) \in EligibleEntries(prefs)) =>
                  /\ Allocated.qualifiedStream = prefs[m + 1]
                  /\ quotaUsage' = [quotaUsage EXCEPT ![prefs[m + 1]] = @ + 1]]_vars

\* one student got the track listed after an unknown name, another with
\* only an unknown name stayed unassigned while a track had room
C13_Witness ==
    /\ pc = "done"
    /\ \E k \in 1..Len(result) :
         /\ Len(result[k].preferredStreams) = 2
         /\ result[k].preferredStreams[1] \notin PlanNames
         /\ result[k].qualifiedStream = result[k].preferredStreams[2]
    /\ \E k \in 1..Len(result) :
         /\ result[k].preferredStreams # << >>
         /\ Entries(result[k].preferredStreams) \cap PlanNames = {}
         /\ result[k].qualifiedStream = Null
    /\ \E t \in PlanNames : Cardinality(AssignedTo(result, t)) < QuotaOf(t)

(* C14: a student's qualifiedStream is null exactly when, at the moment    *)
(* the student is processed, every entry of the preference list is either   *)
(* no configured track or a track without remaining capacity (the empty     *)
(* list included); then no counter changes and the student keeps the rank.  *)
C14_NullIffNothingEligible ==
    [][AllocStep =>
        /\ (Allocated.qualifiedStream = Null)
              <=> (EligibleEntries(Allocated.preferredStreams) = {})
        /\ Allocated.qualifiedStream = Null =>
              /\ quotaUsage' = quotaUsage
              /\ Allocated.rank = Num(Len(result'))]_vars

\* the student just processed named only configured tracks, all of them
\* full, and stays unassigned at rank 2
C14_Witness ==
    /\ pc = "allocating"
    /\ Len(result) = 2
    /\ result[2].qualifiedStream = Null
    /\ result[2].rank = Num(2)
    /\ result[2].preferredStreams # << >>
    /\ \A t \in Entries(result[2].preferredStreams) :
         t \in PlanNames /\ QuotaOf(t) > 0 /\ quotaUsage[t] = QuotaOf(t)

\* seats of track t taken by the students standing before position k
UsedBefore(k, t) == Cardinality({j \in 1..(k - 1) : result[j].qualifiedStream = t})

\* the configured tracks of capacity 0
ClosedTracks == {t \in PlanNames : QuotaOf(t) = 0}

\* prefs without the entries that name a track of capacity 0
WithoutClosed(prefs) == SelectSeq(prefs, LAMBDA t : t \notin ClosedTracks)

\* the first entry of prefs that is a configured track with a free seat when
\* the student at position k is processed, null when there is none
FirstFree(prefs, k) ==
    LET E == {j \in 1..Len(prefs) :
                prefs[j] \in PlanNames /\ UsedBefore(k, prefs[j]) < QuotaOf(prefs[j])}
    IN IF E = {} THEN Null ELSE prefs[FirstOf(E)]

(* C15: a track of capacity 0 is never assigned to any student, whatever    *)
(* the ranks and preference orders; students naming it fall through to      *)
(* their next preference, as if the entry were not in the list.             *)
C15_ZeroCapacityNeverAssigned ==
    /\ \A t \in ClosedTracks : AssignedTo(result, t) = {}
    /\ \A k \in 1..Len(result) :
         result[k].qualifiedStream = FirstFree(WithoutClosed(result[k].preferredStreams), k)

\* a student whose first choice has capacity 0 holds the second choice
C15_Witness ==
    /\ pc = "done"
    /\ \E k \in 1..Len(result) :
         /\ Len(result[k].preferredStreams) = 2
         /\ result[k].preferredStreams[1] \in ClosedTracks
         /\ result[k].qualifiedStream = result[k].preferredStreams[2]
         /\ result[k].rank = Num(1)

\* the track list with every negative quota replaced by 0
FlooredPlans == [i \in 1..Len(plans) |-> [plans[i] EXCEPT !.quota = IF @ < 0 THEN 0 ELSE @]]

Streams(seq) == [k \in 1..Len(seq) |-> seq[k].qualifiedStream]

(* C16: a track with a negative capacity behaves like a track of capacity   *)
(* 0. No student is ever assigned to it, and every student's allocation is  *)
(* the one obtained when the negative capacity is replaced by 0.            *)
C16_NegativeCapacityLikeZero ==
    /\ \A t \in PlanNames : QuotaOf(t) < 0 => AssignedTo(result, t) = {}
    /\ pc = "done" => Streams(result) = Streams(RunAllocation(processed, FlooredPlans))

\* the best student names the negative track first and holds the second choice
C16_Witness ==
    /\ pc = "done"
    /\ \E k \in 1..Len(result) :
         /\ result[k].rank = Num(1)
         /\ Len(result[k].preferredStreams) = 2
         /\ result[k].preferredStreams[1] \in PlanNames
         /\ QuotaOf(result[k].preferredStreams[1]) < 0
         /\ result[k].qualifiedStream = result[k].preferredStreams[2]

\* what a caller reads of a returned list
RankAndStream(seq) ==
    [k \in 1..Len(seq) |-> <<seq[k].id, seq[k].rank, seq[k].qualifiedStream>>]

(* C17: two calls of rankStudents with equal (students, plans) return equal *)
(* rank and qualifiedStream for every student, whatever calls were made in  *)
(* between; the usage counters of a call start from zero and count only the *)
(* allocations of that call.                                                *)
C17_DeterministicAcrossCalls ==
    /\ \A i, j \in 1..Len(returned) :
         (returned[i].students = returned[j].students /\ returned[i].plans = returned[j].plans)
            => RankAndStream(returned[i].result) = RankAndStream(returned[j].result)
    /\ pc = "allocating" =>
         \A t \in PlanNames : quotaUsage[t] = Cardinality(AssignedTo(result, t))

\* the same inputs twice, with a call in between that filled a track
C17_Witness ==
    /\ Len(returned) = 3
    /\ returned[1].students = returned[3].students
    /\ returned[1].plans = returned[3].plans
    /\ returned[2].students # returned[1].students
    /\ returned[2].plans # returned[1].plans
    /\ AssignedTo(returned[1].result, "X") # {}
    /\ AssignedTo(returned[2].result, "Y") # {}

\* the qualifiedStream a list gives to the student of an id
StreamOf(seq, i) == seq[CHOOSE k \in 1..Len(seq) : seq[k].id = i].qualifiedStream

\* other students that could stand behind a ranked prefix: none, one or two,
\* asking for either track first
AltTails ==
    UNION {{[j \in 1..n |-> MkStudent(MaxStudents + j, [s \in FiveSubjects |-> 0], pr[j], Fresh)] :
               pr \in [1..n -> {<<"X">>, <<"Y", "X">>}]} : n \in 0..2}

(* C18: the allocation of a student depends only on the better-ranked       *)
(* students. A run over the same tracks whose ranked list has the same      *)
(* first k students, followed by any other students, gives each of those k  *)
(* students the same qualifiedStream.                                       *)
C18_OnlyBetterRankedMatter ==
    pc = "done" =>
        \A k \in 0..Len(processed) : \A tail \in AltTails :
            LET other == RunAllocation(SubSeq(processed, 1, k) \o tail, plans)
            IN \A j \in 1..k :
                 StreamOf(other, processed[j].id) = StreamOf(result, processed[j].id)

\* the best student holds the only seat of X, which the next student and the
\* students of the other tails ask for as well
C18_Witness ==
    /\ pc = "done"
    /\ Len(result) = 2
    /\ QuotaOf("X") = 1
    /\ result[1].qualifiedStream = "X"
    /\ result[2].preferredStreams = <<"X", "Y">>
    /\ result[2].qualifiedStream = "Y"
    /\ \E tail \in AltTails :
         /\ Len(tail) = 2
         /\ StreamOf(RunAllocation(SubSeq(processed, 1, 1) \o tail, plans), MaxStudents + 1) = Null

(* C19: rankStudents does not mutate its inputs. No step of a call changes  *)
(* the students array (length, order, scores, preferredStreams, display     *)
(* fields of every element) or the plans array (each plan and its quota);   *)
(* the ranked list is built in processed and result, apart from the input.  *)
C19_InputsNotMutated ==
    [][/\ students' = students
       /\ plans' = plans
       /\ pc' = "done" => /\ Len(result') = Len(students')
                          /\ \A k \in 1..Len(result') : result'[k] \notin Entries(students')]_vars

\* the call has returned a list in another order than the input, which
\* still stands as it was given
C19_Witness ==
    /\ pc = "done"
    /\ Len(students) = 2
    /\ students[1].id = 1
    /\ students[1].rank = Undefined
    /\ result[1].id = 2
    /\ result[1].rank = Num(1)

\* the fields of a student that rankStudents only carries along
Carried(r) == <<r.id, r.display, r.scores, r.preferredStreams>>

(* C20: the result of rankStudents is a permutation of the input students   *)
(* in ascending rank. Every input student appears exactly once, with id,    *)
(* display fields, scores and preferredStreams unchanged; no student is     *)
(* added or dropped, assigned or not; the record at 0-based position i has  *)
(* rank i + 1.                                                              *)
C20_ResultIsRankedPermutation ==
    pc = "done" =>
        /\ Len(result) = Len(students)
        /\ \A i \in 1..Len(students) :
             Cardinality({k \in 1..Len(result) : Carried(result[k]) = Carried(students[i])}) = 1
        /\ \A k \in 1..Len(result) :
             \E i \in 1..Len(students) : Carried(result[k]) = Carried(students[i])
        /\ \A k \in 1..Len(result) : result[k].rank = Num(k)

\* a returned list that reverses the input, its second student unassigned
C20_Witness ==
    /\ pc = "done"
    /\ Len(students) = 2
    /\ Carried(result[1]) = Carried(students[2])
    /\ Carried(result[2]) = Carried(students[1])
    /\ result[1].qualifiedStream \in PlanNames
    /\ result[2].qualifiedStream = Null

(* C21: rankStudents raises no error on degenerate input. Every call runs  *)
(* to its return; an empty student list yields an empty result for any     *)
(* track list, and an empty track list yields every student ranked and     *)
(* unassigned.                                                             *)
C21_DegenerateInputs ==
    /\ pc = "start" => ENABLED CalculateTotals
    /\ pc = "totalled" => SortOutcomes(processed) # {}
    /\ pc = "sorted" => ENABLED AssignGlobalRank
    /\ pc = "ranked" => ENABLED InitQuota
    /\ pc = "allocating" => ENABLED (Allocate \/ Return)
    /\ (pc = "done" /\ students = << >>) => result = << >>
    /\ (pc = "done" /\ plans = << >>) =>
          /\ Len(result) = Len(students)
          /\ \A k \in 1..Len(result) :
               /\ result[k].rank = Num(k)
               /\ result[k].qualifiedStream = Null

\* two students who name tracks are ranked against an empty track list
C21_Witness ==
    /\ pc = "done"
    /\ plans = << >>
    /\ Len(result) = 2
    /\ result[1].preferredStreams # << >>
    /\ result[2].preferredStreams # << >>
    /\ result[1].id = 2

\* the students of a list that hold a track
AssignedIn(seq) == {k \in 1..Len(seq) : seq[k].qualifiedStream # Null}

TotalQuota == SumOver([t \in PlanNames |-> QuotaOf(t)], PlanNames)

Min(a, b) == IF a <= b THEN a ELSE b

(* C22: counter consistency during the allocation pass. The counters start  *)
(* at zero; after each student is processed, the counter of every track is  *)
(* the number of processed students assigned to it, no counter has          *)
(* decreased, the counters changed by at most 1 in all, their sum is the    *)
(* number of students assigned so far, and that number is at most           *)
(* min(N, total quota).                                                     *)
C22_CounterConsistency ==
    [][/\ (pc = "ranked" /\ pc' = "allocating") =>
            \A t \in PlanNames : quotaUsage'[t] = 0
       /\ AllocStep =>
            /\ DOMAIN quotaUsage' = PlanNames
            /\ \A t \in PlanNames :
                 /\ quotaUsage'[t] = Cardinality(AssignedTo(result', t))
                 /\ quotaUsage'[t] >= quotaUsage[t]
            /\ SumOver(quotaUsage', PlanNames) - SumOver(quotaUsage, PlanNames) \in {0, 1}
            /\ SumOver(quotaUsage', PlanNames) = Cardinality(AssignedIn(result'))
            /\ Cardinality(AssignedIn(result')) <= Min(Len(processed), TotalQuota)]_vars

\* two students processed: one seat taken on each track, both counters at 1
C22_Witness ==
    /\ pc = "allocating"
    /\ Len(result) = 2
    /\ quotaUsage["X"] = 1
    /\ quotaUsage["Y"] = 1
    /\ result[1].qualifiedStream = "Y"
    /\ result[2].qualifiedStream = "X"

\* the ids of a list, one entry per student
IdsOf(list) == [k \in 1..Len(list) |-> list[k].id]

(* C23: student ids stay unique in the Dashboard's student list. Starting   *)
(* from a list with distinct ids, after any sequence of handleAddStudents,  *)
(* handleEditStudent and handleDeleteStudent no two students of the list    *)
(* passed to rankStudents share an id.                                      *)
C23_StudentIdsUnique ==
    \A i, j \in 1..Len(students) : students[i].id = students[j].id => i = j

(* C24: a user with role VIEWER cannot change data. When the role is        *)
(* VIEWER, each of handleAddStudents, handleEditStudent,                    *)
(* handleDeleteStudent, handleUpdatePlans, handleUpdateSubjects and         *)
(* handleResetData leaves students, studyPlans and examSubjects unchanged,  *)
(* sends no API request and writes no activity log.                         *)
C24_ViewerChangesNothing ==
    [][role = "VIEWER" =>
         /\ lastCall' \in {"handleAddStudents", "handleEditStudent", "handleDeleteStudent",
                           "handleUpdatePlans", "handleUpdateSubjects", "handleResetData"}
         /\ UNCHANGED <<students, plans, examSubjects, apiRequests, activityLog>>]_vars

\* a viewer has called handleResetData on a list that still stands
C24_Witness ==
    /\ role = "VIEWER"
    /\ lastCall = "handleResetData"
    /\ Len(students) = 2
    /\ apiRequests = 0
    /\ activityLog = 0

\* no execution is between its tryLock and its releaseLock
AllIdle == \A e \in Executions : req[e].pc = "idle"

(* C25: requests to the backend are serialized. No two executions of        *)
(* handleRequest run their action at the same time, and an execution runs   *)
(* its action only while it holds the script lock.                          *)
C25_RequestsSerialized ==
    /\ \A e \in Executions : InAction(e) => scriptLock = e
    /\ \A e, f \in Executions : (InAction(e) /\ InAction(f)) => e = f

\* the rows of a sheet that belong to other classrooms than cid, in order
OtherRows(sheet, cid) == SelectSeq(sheet, LAMBDA row : row.cid # cid)

(* C26: student rows are unique per key. Starting from a sheet in which no  *)
(* two rows share (classroom_id, student_id), after any sequence of         *)
(* saveStudent, saveStudents and deleteStudent requests the sheet holds at  *)
(* most one row per key, and that row holds the data saved last.            *)
C26_StudentRowsUnique ==
    AllIdle =>
        \A key \in StudentKeys :
            LET rows == Matches(dbStudents, key[1], key[2])
            IN /\ Cardinality(rows) <= 1
               /\ \A k \in rows : dbStudents[k].json = lastSaved[key]
               /\ lastSaved[key] # "" => rows # {}

\* execution e takes a step of deleteClassroom
DeleteClassroomStep(e) ==
    /\ req[e].pc \in {"deleteClassroom", "deleteStudents", "deleteSettings"}
    /\ req'[e].pc # req[e].pc

(* C27: deleteClassroom cascades and is scoped. When a classroom row with   *)
(* the given id exists, after the call no DB_Students or DB_Settings row    *)
(* with that classroom id remains, and the call leaves every row of the     *)
(* other classrooms as it was; when no classroom row matches, the call      *)
(* returns status error and deletes no row of any sheet.                    *)
C27_DeleteClassroomScoped ==
    [][\A e \in Executions :
         DeleteClassroomStep(e) =>
            LET cid == req[e].request.classroomId
            IN /\ OtherRows(dbStudents', cid) = OtherRows(dbStudents, cid)
               /\ OtherRows(dbSettings', cid) = OtherRows(dbSettings, cid)
               /\ SelectSeq(dbClassrooms', LAMBDA id : id # cid)
                    = SelectSeq(dbClassrooms, LAMBDA id : id # cid)
               /\ req'[e].status = "success" =>
                    /\ RowsOf(dbStudents', cid) = {}
                    /\ RowsOf(dbSettings', cid) = {}
                    /\ cid \notin {dbClassrooms'[k] : k \in 1..Len(dbClassrooms')}
               /\ req'[e].status = "error" <=>
                    (req[e].pc = "deleteClassroom"
                       /\ cid \notin {dbClassrooms[k] : k \in 1..Len(dbClassrooms)})
               /\ req'[e].status = "error" =>
                    UNCHANGED <<dbClassrooms, dbStudents, dbSettings>>]_vars

\* the users of a list with a given id
WithId(list, id) == {k \in 1..Len(list) : list[k].id = id}

(* C28: the main administrator account cannot be removed. After any         *)
(* sequence of addUser, updateUser and deleteUser a user with id admin-001  *)
(* is still stored; deleteUser on a user whose id is admin-001 or whose     *)
(* username is Admin throws and leaves the stored list unchanged.           *)
C28_MainAdminStays ==
    [][/\ WithId(getUsers(users'), "admin-001") # {}
       /\ (/\ thrown'.call = "deleteUser"
           /\ \E k \in WithId(getUsers(users), thrown'.arg) :
                \/ getUsers(users)[k].id = "admin-001"
                \/ getUsers(users)[k].username = "Admin")
            => /\ thrown'.threw
               /\ getUsers(users') = getUsers(users)]_vars

(* C29: usernames are unique in the user store. After any sequence of       *)
(* addUser, updateUser and deleteUser from the default store no two stored  *)
(* users share a username; addUser with an existing username throws and     *)
(* leaves the stored list unchanged.                                        *)
C29_UsernamesUnique ==
    \A i, j \in 1..Len(getUsers(users)) :
        getUsers(users)[i].username = getUsers(users)[j].username => i = j

\* no view but the landing page without a user, and no user on the landing page
LandingIffNoUser == view = "LANDING" <=> currentUser = Null

(* C30: no application view is reachable without a logged-in user. In every *)
(* reachable state of App view is LANDING exactly when currentUser is null; *)
(* a logout request alone changes neither view, currentUser nor the stored  *)
(* session; logout confirm clears the stored session, currentUser and       *)
(* selectedClassroom and returns to LANDING.                                *)
C30_NoViewWithoutUser ==
    [][/\ LandingIffNoUser
       /\ LandingIffNoUser'
       /\ lastEvent' = "handleLogoutRequest" => UNCHANGED <<view, currentUser, session>>
       /\ lastEvent' = "handleConfirmLogout" =>
            /\ session' = Null
            /\ currentUser' = Null
            /\ selectedClassroom' = Null
            /\ view' = "LANDING"]_vars

\* the logout was confirmed: the landing page, no user, no session, no classroom
C30_Witness ==
    /\ lastEvent = "handleConfirmLogout"
    /\ view = "LANDING"
    /\ currentUser = Null
    /\ session = Null
    /\ selectedClassroom = Null
    /\ ~showLogoutConfirm

====
